---- MODULE Spec2Model ----
(***************************************************************************)
(* Model of nemo/collections/common/parts/preprocessing/manifest.py:       *)
(* the manifest reader item_iter, the default normalizer __parse_item and  *)
(* the path resolver get_full_path.                                        *)
(*                                                                         *)
(* Strings are sequences of one-character strings, so that length, prefix  *)
(* tests, splitting on "/" and concatenation are computed as the code      *)
(* computes them.                                                          *)
(***************************************************************************)
EXTENDS Integers, Sequences, FiniteSets, TLC

VARIABLES
    files,       \* the regular files of the filesystem (absolute, normalised paths)
    home,        \* $HOME of the process
    cand,        \* get_full_path: the audio_file argument
    man,         \* get_full_path: the manifest_file argument
    lim,         \* get_full_path: the audio_file_len_limit argument
    out,         \* the results of the successive get_full_path calls
    manifests_files, \* item_iter: the manifests_files argument
    parse_func,  \* item_iter: the parse_func argument
    mlines,      \* the lines of the manifest file /d/m
    pc,          \* the generator: "created", "suspended", "finished", "failed"
    mi,          \* position of manifest_file in the list (from 1)
    li,          \* lines of the open manifest consumed so far
    k,           \* item_iter's running counter k
    handles,     \* the manifest handles that are open
    yielded,     \* the items yielded so far by this invocation
    err,         \* the exception that ended the generator
    log,         \* the I/O of this invocation, in order
    last,        \* what the last next() gave: "item", "raise", "stop"
    runs         \* the ids yielded by the earlier invocations

resolverVars == <<cand, man, lim, out>>
readerVars == <<manifests_files, parse_func, mlines, pc, mi, li, k, handles,
                yielded, err, log, last, runs>>
vars == <<files, home, resolverVars, readerVars>>

(***************************************************************************)
(* Bounds and program constants                                            *)
(***************************************************************************)
MaxLen == 4                 \* longest candidate path that is enumerated
SmallLimit == 2             \* a caller-supplied audio_file_len_limit
AudioFileLenLimit == 255    \* default of audio_file_len_limit

Alphabet == {"/", "a", "~", "."}

(***************************************************************************)
(* String helpers                                                          *)
(***************************************************************************)
Last(s) == s[Len(s)]
Front(s) == SubSeq(s, 1, Len(s) - 1)

\* str.startswith
StartsWith(s, p) == Len(s) >= Len(p) /\ SubSeq(s, 1, Len(p)) = p

\* str.split('/')
RECURSIVE SplitSlash(_)
SplitSlash(s) ==
    IF s = <<>> THEN << <<>> >>
    ELSE LET r == SplitSlash(Front(s))
         IN  IF Last(s) = "/" THEN Append(r, <<>>)
             ELSE [r EXCEPT ![Len(r)] = Append(@, Last(s))]

\* '/'.join(parts)
RECURSIVE JoinSlash(_)
JoinSlash(parts) ==
    IF parts = <<>> THEN <<>>
    ELSE IF Len(parts) = 1 THEN parts[1]
    ELSE JoinSlash(Front(parts)) \o <<"/">> \o Last(parts)

\* str.rstrip('/')
RECURSIVE RStripSlash(_)
RStripSlash(s) ==
    IF s # <<>> /\ Last(s) = "/" THEN RStripSlash(Front(s)) ELSE s

\* str.find('/', 1): the first index (1-based here) > 1 holding "/", or 0
FindSlashAfterFirst(s) ==
    LET I == {i \in 2..Len(s) : s[i] = "/"}
    IN  IF I = {} THEN 0 ELSE CHOOSE i \in I : \A j \in I : i <= j

\* str.rfind('/'): the last index holding "/", or 0
RFindSlash(s) ==
    LET I == {i \in 1..Len(s) : s[i] = "/"}
    IN  IF I = {} THEN 0 ELSE CHOOSE i \in I : \A j \in I : i >= j

(***************************************************************************)
(* pathlib.PurePosixPath                                                   *)
(***************************************************************************)
\* the root of a path: "//" for exactly two leading slashes, "/" for one or
\* for three and more, "" for none
PathRoot(s) ==
    IF ~StartsWith(s, <<"/">>) THEN <<>>
    ELSE IF StartsWith(s, <<"/", "/">>) /\ ~StartsWith(s, <<"/", "/", "/">>)
         THEN <<"/", "/">>
         ELSE <<"/">>

\* the parts after the root: empty and "." components are dropped
PathParts(s) ==
    SelectSeq(SplitSlash(s), LAMBDA c : c # <<>> /\ c # <<".">>)

FormatPath(root, parts) ==
    IF root = <<>> /\ parts = <<>> THEN <<".">> ELSE root \o JoinSlash(parts)

\* str(Path(s)), Path(s).as_posix()
PathStr(s) == FormatPath(PathRoot(s), PathParts(s))

\* Path(s).is_absolute()
IsAbsolute(s) == PathRoot(s) # <<>>

\* Path(s).parent.as_posix()
PathParent(s) ==
    IF PathParts(s) = <<>> THEN PathStr(s)
    ELSE FormatPath(PathRoot(s), Front(PathParts(s)))

(***************************************************************************)
(* os.path                                                                 *)
(***************************************************************************)
\* os.path.dirname
OsDirname(p) ==
    LET head == SubSeq(p, 1, RFindSlash(p))
    IN  IF head # <<>> /\ RStripSlash(head) # <<>> THEN RStripSlash(head) ELSE head

\* os.path.join(a, b)
OsJoin(a, b) ==
    IF StartsWith(b, <<"/">>) THEN b
    ELSE IF a = <<>> \/ Last(a) = "/" THEN a \o b
    ELSE a \o <<"/">> \o b

\* the password database: the login name of the process's user
UserName == <<"a">>

\* os.path.expanduser with $HOME = h
ExpandUserIn(h, path) ==
    IF ~StartsWith(path, <<"~">>) THEN path
    ELSE LET f == FindSlashAfterFirst(path)
             i == IF f = 0 THEN Len(path) + 1 ELSE f
             name == SubSeq(path, 2, i - 1)
             rest == SubSeq(path, i, Len(path))
         IN  IF i # 2 /\ name # UserName THEN path
             ELSE IF RStripSlash(h) \o rest = <<>> THEN <<"/">>
             ELSE RStripSlash(h) \o rest

ExpandUser(path) == ExpandUserIn(home, path)

(***************************************************************************)
(* The filesystem                                                          *)
(***************************************************************************)
Cwd == <<"/", "w">>
CacheDir == <<"/", "c">>

\* the proper ancestors of an absolute normalised path, "" standing for "/"
Ancestors(f) == {SubSeq(f, 1, i - 1) : i \in {j \in 1..Len(f) : f[j] = "/"}}

\* the directories: the working directory, and the ancestors of every file
Dirs == {Cwd} \cup Ancestors(Cwd) \cup UNION {Ancestors(f) : f \in files}

\* the kernel's walk of a normalised path: cur is the path reached so far
\* ("" is the root), rest the components left
RECURSIVE Walk(_, _)
Walk(cur, rest) ==
    IF rest = <<>> THEN [ok |-> TRUE, path |-> cur]
    ELSE IF cur \notin Dirs THEN [ok |-> FALSE, path |-> cur]
    ELSE IF rest[1] = <<".", ".">>
         THEN Walk(IF cur = <<>> THEN cur ELSE SubSeq(cur, 1, RFindSlash(cur) - 1),
                   Tail(rest))
         ELSE Walk(cur \o <<"/">> \o rest[1], Tail(rest))

\* Path(s).is_file()
IsFile(s) ==
    LET w == Walk(IF IsAbsolute(s) THEN <<>> ELSE Cwd, PathParts(s))
    IN  w.ok /\ w.path \in files

\* str(Path(s).absolute())
Absolute(s) ==
    IF IsAbsolute(s) THEN PathStr(s) ELSE PathStr(Cwd \o <<"/">> \o PathStr(s))

(***************************************************************************)
(* nemo.utils.data_utils (outside this file)                               *)
(***************************************************************************)
StorePrefix == <<"a", "i", "s", ":", "/", "/">>

IsDatastorePath(p) == StartsWith(p, StorePrefix)

DatastorePathToLocalPath(p) ==
    CacheDir \o <<"/">> \o SubSeq(p, Len(StorePrefix) + 1, Len(p))

(***************************************************************************)
(* get_full_path                                                           *)
(***************************************************************************)
ManifestDir(manifest_file) ==
    IF IsDatastorePath(manifest_file) THEN OsDirname(manifest_file)
    ELSE PathParent(manifest_file)

\* audio_file_path: the candidate joined onto the manifest's directory, or
\* the local cache path of that
JoinedPath(audio_file, manifest_file) ==
    LET joined == OsJoin(ManifestDir(manifest_file), PathStr(audio_file))
    IN  IF IsDatastorePath(joined) THEN PathStr(DatastorePathToLocalPath(joined))
        ELSE PathStr(joined)

\* TreatAsRelative without the length test
TreatAsRelativeNoLimit(audio_file, limit) ==
    /\ ~IsFile(audio_file)
    /\ ~IsAbsolute(audio_file)

TreatAsRelative(audio_file, limit) ==
    /\ Len(PathStr(audio_file)) < limit
    /\ ~IsFile(audio_file)
    /\ ~IsAbsolute(audio_file)

\* get_full_path falling back to the joined path instead of the candidate
GetFullPathKeepJoined(audio_file, manifest_file, limit) ==
    IF TreatAsRelative(audio_file, limit)
    THEN IF IsFile(JoinedPath(audio_file, manifest_file))
         THEN Absolute(JoinedPath(audio_file, manifest_file))
         ELSE JoinedPath(audio_file, manifest_file)
    ELSE ExpandUser(PathStr(audio_file))

\* get_full_path without the existence test of the joined path
GetFullPathNoExistCheck(audio_file, manifest_file, limit) ==
    IF TreatAsRelative(audio_file, limit)
    THEN Absolute(JoinedPath(audio_file, manifest_file))
    ELSE ExpandUser(PathStr(audio_file))

GetFullPath(audio_file, manifest_file, limit) ==
    IF TreatAsRelative(audio_file, limit)
    THEN IF IsFile(JoinedPath(audio_file, manifest_file))
         THEN Absolute(JoinedPath(audio_file, manifest_file))
         ELSE ExpandUser(PathStr(audio_file))
    ELSE ExpandUser(PathStr(audio_file))

(***************************************************************************)
(* Manifest locations                                                      *)
(***************************************************************************)
M_abs == <<"/", "d", "/", "m">>
M_rel == <<"d", "/", "m">>
M_bare == <<"m">>
M_store == StorePrefix \o <<"b", "/", "m">>

(***************************************************************************)
(* JSON values and dicts                                                   *)
(***************************************************************************)
Str(s) == [t |-> "str", s |-> s, n |-> 0]
Num(n) == [t |-> "num", s |-> <<>>, n |-> n]
None == [t |-> "null", s |-> <<>>, n |-> 0]

EmptyDict == [x \in {} |-> None]
DictSet(d, key, v) == [x \in DOMAIN d \cup {key} |-> IF x = key THEN v ELSE d[x]]
DictPop(d, key) == [x \in DOMAIN d \ {key} |-> d[x]]
\* dict.get(key, None)
DictGet(d, key) == IF key \in DOMAIN d THEN d[key] ELSE None

(***************************************************************************)
(* File contents                                                           *)
(***************************************************************************)
F_da == <<"/", "d", "/", "a">>
F_daaaa == <<"/", "d", "/", "a", "a", "a", "a">>
F_wa == <<"/", "w", "/", "a">>
F_wda == <<"/", "w", "/", "d", "/", "a">>
F_cba == <<"/", "c", "/", "b", "/", "a">>
F_wtilde == <<"/", "w", "/", "~">>
F_ha == <<"/", "h", "/", "a">>
F_dm == M_abs
F_cbm == <<"/", "c", "/", "b", "/", "m">>
F_hm == <<"/", "h", "/", "m">>
F_wt == <<"/", "w", "/", "t">>
F_dt == <<"/", "d", "/", "t">>
M_home == <<"~", "/", "m">>

\* the absolute path of the file that open(p) reaches
Canonical(p) == Walk(IF IsAbsolute(p) THEN <<>> ELSE Cwd, PathParts(p)).path

\* the characters of a text file
FileText(p) ==
    IF Canonical(p) = F_wt THEN <<"a", "\n", "b", "\n">>
    ELSE IF Canonical(p) = F_dt THEN <<"z", "\n">>
    ELSE <<>>

(***************************************************************************)
(* __parse_item                                                            *)
(***************************************************************************)
NoErr == "none"

\* what __parse_item has so far: the exception raised (or none), the working
\* item, and the text files it opened
Ok(item) == [err |-> NoErr, item |-> item, opened |-> <<>>]
Raise(r, e) == [r EXCEPT !.err = e]

\* json.loads(line); a line is [json |-> whether it is JSON text,
\* obj |-> the decoded object]
Loads(line) ==
    IF ~line.json THEN Raise(Ok(EmptyDict), "JSONDecodeError") ELSE Ok(line.obj)

\* item[to] = item.pop(from)
Rename(r, from, to) ==
    [r EXCEPT !.item = DictSet(DictPop(r.item, from), to, r.item[from])]

\* the audio file key (lines 90-98), with audio_filepath tried first
AudioAliasFilepathFirst(r) ==
    IF r.err # NoErr THEN r
    ELSE IF "audio_filepath" \in DOMAIN r.item THEN Rename(r, "audio_filepath", "audio_file")
    ELSE IF "audio_filename" \in DOMAIN r.item THEN Rename(r, "audio_filename", "audio_file")
    ELSE IF "audio_file" \notin DOMAIN r.item THEN Raise(r, "ValueError")
    ELSE r

\* the audio file key (lines 90-98)
AudioAlias(r) ==
    IF r.err # NoErr THEN r
    ELSE IF "audio_filename" \in DOMAIN r.item THEN Rename(r, "audio_filename", "audio_file")
    ELSE IF "audio_filepath" \in DOMAIN r.item THEN Rename(r, "audio_filepath", "audio_file")
    ELSE IF "audio_file" \notin DOMAIN r.item THEN Raise(r, "ValueError")
    ELSE r

\* item[key] = get_full_path(audio_file=item[key], manifest_file=manifest_file)
\* unless item[key] is None; Path() of a value that is no string raises TypeError
ResolveField(r, key, manifest_file) ==
    IF r.err # NoErr \/ r.item[key] = None THEN r
    ELSE IF r.item[key].t # "str" THEN Raise(r, "TypeError")
    ELSE [r EXCEPT !.item = DictSet(r.item, key,
                                    Str(GetFullPath(r.item[key].s, manifest_file,
                                                    AudioFileLenLimit)))]

\* the duration key (lines 107-110)
Duration(r) ==
    IF r.err # NoErr THEN r
    ELSE IF "duration" \notin DOMAIN r.item THEN Raise(r, "ValueError")
    ELSE r

\* str.replace('\n', '') that removes nothing
KeepNewlines(s) == s

\* str.replace('\n', '')
RemoveNewlines(s) == SelectSeq(s, LAMBDA c : c # "\n")

\* open(path, 'r') and f.read().replace('\n', '') (lines 116-117)
ReadText(r, path) ==
    IF ~IsFile(path) THEN Raise(r, "OSError")
    ELSE [r EXCEPT !.item = DictSet(r.item, "text", Str(RemoveNewlines(FileText(path)))),
                   !.opened = Append(@, path)]

\* the text (lines 112-121)
Text(r) ==
    IF r.err # NoErr THEN r
    ELSE IF "text" \in DOMAIN r.item THEN r
    ELSE IF "text_filepath" \in DOMAIN r.item
    THEN ReadText([r EXCEPT !.item = DictPop(r.item, "text_filepath")],
                  r.item["text_filepath"].s)
    ELSE IF "normalized_text" \in DOMAIN r.item
    THEN [r EXCEPT !.item = DictSet(r.item, "text", r.item["normalized_text"])]
    ELSE [r EXCEPT !.item = DictSet(r.item, "text", Str(<<>>))]

\* an optional file key and its two aliases (lines 123-131, 135-143)
OptionalAlias(r, key, alias1, alias2) ==
    IF r.err # NoErr THEN r
    ELSE IF key \in DOMAIN r.item THEN r
    ELSE IF alias1 \in DOMAIN r.item THEN Rename(r, alias1, key)
    ELSE IF alias2 \in DOMAIN r.item THEN Rename(r, alias2, key)
    ELSE [r EXCEPT !.item = DictSet(r.item, key, None)]

CanonicalFields ==
    {"audio_file", "duration", "text", "rttm_file", "feature_file", "offset",
     "speaker", "orig_sr", "token_labels", "lang", "is_valid"}

\* the result built by updating the working item instead of a new dict
UpdatedDict(r) ==
    IF r.err # NoErr THEN [r EXCEPT !.item = EmptyDict]
    ELSE [r EXCEPT !.item = DictSet(r.item, "orig_sr", DictGet(r.item, "orig_sample_rate"))]

\* the dict(...) of lines 150-162
FinalDict(r) ==
    IF r.err # NoErr THEN [r EXCEPT !.item = EmptyDict]
    ELSE [r EXCEPT !.item =
            [f \in CanonicalFields |->
                IF f = "orig_sr" THEN DictGet(r.item, "orig_sample_rate")
                ELSE DictGet(r.item, f)]]

\* __parse_item: the statements in order, an exception ending the function
ParseItem(line, manifest_file) ==
    FinalDict(
      ResolveField(
        OptionalAlias(
          ResolveField(
            OptionalAlias(
              Text(Duration(ResolveField(AudioAlias(Loads(line)),
                                         "audio_file", manifest_file))),
              "rttm_file", "rttm_filename", "rttm_filepath"),
            "rttm_file", manifest_file),
          "feature_file", "feature_filename", "feature_filepath"),
        "feature_file", manifest_file))

\* a caller-supplied parse_func: json.loads and nothing else
CustomParse(line, manifest_file) == Loads(line)

(***************************************************************************)
(* item_iter                                                               *)
(***************************************************************************)
MaxFiles == 2       \* longest list of manifests
MaxLines == 2       \* most lines of the manifest /d/m
MaxRuns == 1        \* invocations after the first
MaxExtra == 2       \* most keys of a line besides the audio and duration keys

\* lines 66-67: a single string stands for the list of it
ManifestList ==
    IF manifests_files.isStr THEN <<manifests_files.v>> ELSE manifests_files.v

\* the value a key has in the lines that are enumerated
ValueOf(key) ==
    CASE key = "audio_filename" -> Str(<<"a">>)
      [] key = "audio_filepath" -> Str(<<"~", "/", "a">>)
      [] key = "audio_file" -> Str(<<"/", "d", "/", "b">>)
      [] key = "duration" -> Num(7)
      [] key = "text" -> Str(<<"h", "\n", "i">>)
      [] key = "text_filepath" -> Str(<<"t">>)
      [] key = "normalized_text" -> Str(<<"n">>)
      [] key = "rttm_file" -> Str(<<"r">>)
      [] key = "rttm_filename" -> Str(<<"r", "1">>)
      [] key = "rttm_filepath" -> Str(<<"r", "2">>)
      [] key = "feature_file" -> Str(<<"f">>)
      [] key = "feature_filename" -> Str(<<"f", "1">>)
      [] key = "feature_filepath" -> Str(<<"f", "2">>)
      [] key = "offset" -> Num(1)
      [] key = "speaker" -> Num(2)
      [] key = "orig_sample_rate" -> Num(16)
      [] key = "token_labels" -> Num(3)
      [] key = "lang" -> Str(<<"e">>)
      [] key = "is_valid" -> Num(0)
      [] key = "id" -> Num(99)
      [] OTHER -> Str(<<"x">>)

AudioKeys == {"audio_filename", "audio_filepath", "audio_file"}
RequiredKeys == AudioKeys \cup {"duration"}
OtherKeys ==
    {"text", "text_filepath", "normalized_text", "rttm_file", "rttm_filename",
     "rttm_filepath", "feature_file", "feature_filename", "feature_filepath",
     "offset", "speaker", "orig_sample_rate", "token_labels", "lang", "is_valid",
     "id", "foo"}

\* a JSON object line with the keys D; with strings = FALSE the audio values
\* are numbers and the rttm and feature values are null
ObjectLine(D, strings) ==
    [json |-> TRUE,
     obj |-> [key \in D |->
                IF strings THEN ValueOf(key)
                ELSE IF key \in AudioKeys THEN Num(5)
                ELSE IF key \in {"rttm_file", "rttm_filename", "feature_file"} THEN None
                ELSE ValueOf(key)]]

GarbageLine == [json |-> FALSE, obj |-> EmptyDict]

\* every line with any of the audio and duration keys and at most MaxExtra others
AllLines ==
    {GarbageLine} \cup
    {ObjectLine(R \cup X, b) :
        R \in SUBSET RequiredKeys,
        X \in {Y \in SUBSET OtherKeys : Cardinality(Y) <= MaxExtra},
        b \in BOOLEAN}

\* the lines of the reader's manifests
L_good == ObjectLine({"audio_filepath", "duration", "text"}, TRUE)
L_alias == ObjectLine({"audio_filename", "duration", "text_filepath", "foo", "id"}, TRUE)
L_noaudio == ObjectLine({"duration", "text"}, TRUE)
ReaderLines == {L_good, L_alias, L_noaudio, GarbageLine}

\* the lines of the manifest file that open(p) reaches
FileLines(p) ==
    IF Canonical(p) = F_dm THEN mlines
    ELSE IF Canonical(p) = F_cbm THEN <<L_good>>
    ELSE <<>>

\* DataStoreObject(manifest_file).get(): the local copy of the manifest
CachedManifest(manifest_file) ==
    IF IsDatastorePath(manifest_file) THEN DatastorePathToLocalPath(manifest_file)
    ELSE manifest_file

\* the path that line 78 opens
OpenedPath(manifest_file) == ExpandUser(CachedManifest(manifest_file))

Event(e, m, p) == [e |-> e, m |-> m, p |-> p]

\* the generator's frame: what one resumption reads and writes
Frame ==
    [pc |-> pc, mi |-> mi, li |-> li, k |-> k, handles |-> handles,
     yielded |-> yielded, err |-> err, log |-> log, last |-> last]

Parse(line, manifest_file) ==
    IF parse_func = "default" THEN ParseItem(line, manifest_file)
    ELSE CustomParse(line, manifest_file)

\* leaving the with block without closing f
LeaveOpen(g) == g

\* leaving the with block of line 78: f is closed
CloseHandle(g) ==
    [g EXCEPT !.handles = @ \ {g.mi},
              !.log = Append(@, Event("close", g.mi, <<>>))]

\* k += 1 counting the lines of the open manifest only
NextKPerFile(g) == g.li

\* k += 1 (line 80)
NextK(g) == g.k + 1

\* line 79-80: the next line is read and counted
ReadLine(g) ==
    [g EXCEPT !.li = @ + 1, !.k = NextK(g),
              !.log = Append(@, Event("line", g.mi, <<>>))]

\* the text files that parse_func opened, in the log
LogTexts(g, r) ==
    [g EXCEPT !.log = @ \o [j \in 1..Len(r.opened) |-> Event("text", g.mi, r.opened[j])]]

\* line 81 raised and the line is skipped: the generator goes on
SkippedLine(g, r) == [g EXCEPT !.last = "item"]

\* line 81 raised: the exception leaves the with block and the generator
Raised(g, r) ==
    [CloseHandle(g) EXCEPT !.pc = "failed", !.last = "raise",
                           !.err = [type |-> r.err, from |-> "parse_func"]]

\* lines 82-84: item['id'] = k; yield item
Yield(g, r) ==
    [g EXCEPT !.pc = "suspended", !.last = "item",
              !.yielded = Append(@, DictSet(r.item, "id", Num(g.k))),
              !.log = Append(@, Event("yield", g.mi, <<>>))]

\* lines 81-84 with r what parse_func returned or raised
YieldOrRaise(g, r) ==
    IF r.err # NoErr THEN Raised(LogTexts(g, r), r) ELSE Yield(LogTexts(g, r), r)

\* the end of the open manifest: the with block is left, the next manifest is due
EndOfFile(g) == [CloseHandle(g) EXCEPT !.mi = @ + 1, !.li = 0, !.pc = "created"]

\* line 76: DataStoreObject(manifest_file).get()
Fetch(g, path) == [g EXCEPT !.log = Append(@, Event("fetch", g.mi, path))]

\* line 78: open() of a path that is a file
Open(g, path) ==
    [g EXCEPT !.pc = "suspended", !.li = 0, !.handles = @ \cup {g.mi},
              !.log = Append(@, Event("open", g.mi, path))]

\* line 78: open() of a path that is no file
OpenFails(g) ==
    [g EXCEPT !.pc = "failed", !.last = "raise",
              !.err = [type |-> "OSError", from |-> "open"]]

\* the generator's body from where it stands to its next yield, raise or return
RECURSIVE RunBody(_)
RunBody(g) ==
    IF g.mi > Len(ManifestList)
    THEN [g EXCEPT !.pc = "finished", !.last = "stop"]
    ELSE IF g.pc = "suspended"
    THEN \* resumed after the yield of line 84, inside "for line in f"
         IF g.li < Len(FileLines(OpenedPath(ManifestList[g.mi])))
         THEN YieldOrRaise(ReadLine(g),
                           Parse(FileLines(OpenedPath(ManifestList[g.mi]))[g.li + 1],
                                 ManifestList[g.mi]))
         ELSE RunBody(EndOfFile(g))
    ELSE \* lines 74-78: fetch the manifest and open it
         IF ~IsFile(OpenedPath(ManifestList[g.mi]))
         THEN OpenFails(Fetch(g, OpenedPath(ManifestList[g.mi])))
         ELSE RunBody(Open(Fetch(g, OpenedPath(ManifestList[g.mi])),
                           OpenedPath(ManifestList[g.mi])))

NoError == [type |-> NoErr, from |-> NoErr]

ReaderStart ==
    /\ pc = "created"
    /\ mi = 1
    /\ li = 0
    /\ k = -1
    /\ handles = {}
    /\ yielded = <<>>
    /\ err = NoError
    /\ log = <<>>
    /\ last = "none"

ReaderDisk == {F_dm, F_cbm, F_hm, F_da, F_wt, F_dt}
BareDisk == {F_dm, F_dt}

SeqsUpTo(S, n) == UNION {[1..j -> S] : j \in 0..n}

Init ==
    /\ files = ReaderDisk
    /\ home = <<"/", "h">>
    /\ manifests_files \in
          {[isStr |-> FALSE, v |-> v] : v \in SeqsUpTo({M_abs, M_store, M_home, M_rel}, MaxFiles)}
          \cup {[isStr |-> TRUE, v |-> m] : m \in {M_abs, M_store}}
    /\ parse_func \in {"default", "custom"}
    /\ mlines \in SeqsUpTo(ReaderLines, MaxLines)
    /\ ReaderStart
    /\ runs = <<>>
    /\ cand = <<>> /\ man = <<>> /\ lim = 0 /\ out = <<>>

\* one manifest of one line, any line, read with the default normalizer
InitLines ==
    /\ files \in {ReaderDisk, BareDisk}
    /\ home = <<"/", "h">>
    /\ manifests_files = [isStr |-> TRUE, v |-> M_abs]
    /\ parse_func = "default"
    /\ mlines \in {<<l>> : l \in AllLines}
    /\ ReaderStart
    /\ runs = <<>>
    /\ cand = <<>> /\ man = <<>> /\ lim = 0 /\ out = <<>>

\* the generator's frame after a resumption
Resumed(g) ==
    /\ pc' = g.pc
    /\ mi' = g.mi
    /\ li' = g.li
    /\ k' = g.k
    /\ handles' = g.handles
    /\ yielded' = g.yielded
    /\ err' = g.err
    /\ log' = g.log
    /\ last' = g.last

\* next() on a generator that can run
Pull ==
    /\ pc \in {"created", "suspended"}
    /\ Resumed(RunBody(Frame))
    /\ UNCHANGED <<files, home, resolverVars, manifests_files, parse_func, mlines, runs>>

\* next() on a generator that has returned or raised: StopIteration
PullDone ==
    /\ pc \in {"finished", "failed"}
    /\ last' = "stop"
    /\ log' = IF last = "stop" THEN log ELSE Append(log, Event("stop", mi, <<>>))
    /\ UNCHANGED <<files, home, resolverVars, manifests_files, parse_func, mlines,
                   pc, mi, li, k, handles, yielded, err, runs>>

Ids(items) == [j \in 1..Len(items) |-> items[j]["id"]]

\* item_iter called again with the same arguments, once the first is done
Invoke ==
    /\ pc \in {"finished", "failed"}
    /\ Len(runs) < MaxRuns
    /\ runs' = Append(runs, Ids(yielded))
    /\ pc' = "created"
    /\ mi' = 1
    /\ li' = 0
    /\ k' = -1
    /\ handles' = {}
    /\ yielded' = <<>>
    /\ err' = NoError
    /\ log' = <<>>
    /\ last' = "none"
    /\ UNCHANGED <<files, home, resolverVars, manifests_files, parse_func, mlines>>

Next == Pull \/ PullDone \/ Invoke

Spec == Init /\ [][Next]_vars

NextLines == Pull \/ PullDone

SpecLines == InitLines /\ [][NextLines]_vars

(***************************************************************************)
(* Claims about the reader (checked under Spec)                            *)
(***************************************************************************)
\* the lines of the manifests in list order then line order, each with the
\* manifest it is a line of
RECURSIVE LinesFrom(_)
LinesFrom(j) ==
    IF j > Len(ManifestList) THEN <<>>
    ELSE [n \in 1..Len(FileLines(OpenedPath(ManifestList[j]))) |->
            [line |-> FileLines(OpenedPath(ManifestList[j]))[n], m |-> j]]
         \o LinesFrom(j + 1)

AllManifestLines == LinesFrom(1)

Parsed(n) == Parse(AllManifestLines[n].line, ManifestList[AllManifestLines[n].m])

CountEvents(e) == Cardinality({p \in 1..Len(log) : log[p].e = e})
CountEventsOf(e, m) == Cardinality({p \in 1..Len(log) : log[p].e = e /\ log[p].m = m})

IsPrefix(s, t) == Len(s) <= Len(t) /\ s = SubSeq(t, 1, Len(s))

\* C1: the k-th record pulled (from 0) has id k; an exhausted reader has
\* yielded one record per line of all the manifests, in list order then line
\* order, with ids 0..n-1; a second invocation yields the same ids.
C1_SequentialIds ==
    /\ \A j \in 1..Len(yielded) : yielded[j]["id"] = Num(j - 1)
    /\ pc = "finished" =>
          /\ Len(yielded) = Len(AllManifestLines)
          /\ \A j \in 1..Len(yielded) :
                yielded[j] = DictSet(Parsed(j).item, "id", Num(j - 1))
    /\ \A r \in 1..Len(runs) :
          /\ IsPrefix(Ids(yielded), runs[r])
          /\ pc = "finished" => Ids(yielded) = runs[r]

\* a second invocation has been exhausted after three records of two manifests,
\* one of them from a line that has an "id" key of its own
C1_Witness ==
    /\ pc = "finished"
    /\ runs # <<>>
    /\ Len(yielded) >= 3
    /\ CountEventsOf("yield", 1) >= 1
    /\ CountEventsOf("yield", 2) >= 1
    /\ \E j \in 1..Len(yielded) : "id" \in DOMAIN AllManifestLines[j].line.obj

\* C5: when the normalizer fails on the line with running index i, exactly the
\* records 0..i-1 were yielded before, the consumer gets the failure on that
\* pull, nothing is read, opened, fetched or yielded afterwards, and the
\* manifest's handle is released.
C5_FailFast ==
    /\ (k >= 0 /\ Parsed(k + 1).err # NoErr) =>
          /\ pc = "failed"
          /\ err = [type |-> Parsed(k + 1).err, from |-> "parse_func"]
    /\ (pc = "failed" /\ err.from = "parse_func") =>
        /\ Len(yielded) = k
        /\ \A j \in 1..k : yielded[j]["id"] = Num(j - 1) /\ Parsed(j).err = NoErr
        /\ Parsed(k + 1).err = err.type
        /\ CountEvents("stop") = 0 => last = "raise"
        /\ last \in {"raise", "stop"}
        /\ CountEvents("line") = k + 1
        /\ CountEvents("yield") = k
        /\ CountEvents("fetch") = AllManifestLines[k + 1].m
        /\ CountEvents("open") = AllManifestLines[k + 1].m
        /\ CountEvents("close") = AllManifestLines[k + 1].m
        /\ handles = {}

\* the normalizer failed in the second manifest after records were yielded,
\* with manifests and lines left, and the consumer pulled again
C5_Witness ==
    /\ pc = "failed" /\ err.from = "parse_func"
    /\ k >= 1
    /\ AllManifestLines[k + 1].m = 2
    /\ Len(AllManifestLines) > k + 1
    /\ CountEvents("stop") = 1

\* the handle of manifest m was opened, all its lines were yielded and it was
\* closed before position p of the log
StreamedBefore(m, p) ==
    \E q \in 1..(p - 1) :
        /\ log[q].e = "close" /\ log[q].m = m
        /\ Cardinality({i \in 1..(q - 1) : log[i].e = "yield" /\ log[i].m = m})
              = Len(FileLines(OpenedPath(ManifestList[m])))

\* C10: at most one manifest handle is open; a manifest is fetched and opened
\* only after every line of the one before it was yielded and its handle
\* released; an exhausted or failed reader holds no handle; between pulls in
\* the middle of a file the handle of that file is open.
C10_ScopedHandles ==
    /\ Cardinality(handles) <= 1
    /\ pc \in {"finished", "failed", "created"} => handles = {}
    /\ pc = "suspended" => handles = {mi}
    /\ \A p \in 1..Len(log) :
          (log[p].e \in {"fetch", "open"} /\ log[p].m > 1) =>
              StreamedBefore(log[p].m - 1, p)

\* between two pulls in the second manifest, the first one streamed and closed
C10_Witness ==
    /\ pc = "suspended"
    /\ mi = 2
    /\ handles = {2}
    /\ CountEventsOf("yield", 1) >= 1
    /\ CountEventsOf("close", 1) = 1
    /\ li < Len(FileLines(OpenedPath(ManifestList[2])))

(***************************************************************************)
(* Claims about the default normalizer (checked under SpecLines: one       *)
(* manifest /d/m holding one line)                                         *)
(***************************************************************************)
TheLine == mlines[1]
Keys == DOMAIN TheLine.obj
Pulled == last # "none" /\ TheLine.json
Yielded == Pulled /\ Len(yielded) = 1
HasAudioKey == AudioKeys \cap Keys # {}
SchemaError == pc = "failed" /\ err.type = "ValueError" /\ yielded = <<>>

\* C2: a yielded record has exactly the canonical key set; raw and alias keys
\* never appear; an optional field the line does not provide is an explicit null.
C2_CanonicalKeys ==
    Yielded =>
        /\ DOMAIN yielded[1] = CanonicalFields \cup {"id"}
        /\ Cardinality(DOMAIN yielded[1]) = 12
        /\ \A f \in {"offset", "speaker", "token_labels", "lang", "is_valid"} :
              f \notin Keys => yielded[1][f] = None
        /\ "orig_sample_rate" \notin Keys => yielded[1]["orig_sr"] = None
        /\ {"rttm_file", "rttm_filename", "rttm_filepath"} \cap Keys = {}
              => yielded[1]["rttm_file"] = None
        /\ {"feature_file", "feature_filename", "feature_filepath"} \cap Keys = {}
              => yielded[1]["feature_file"] = None

\* a record of a line with an alias key, an unrecognized key and a key that is
\* renamed, and no optional field but orig_sample_rate
C2_Witness ==
    /\ Yielded
    /\ Keys = {"audio_filepath", "duration", "foo", "orig_sample_rate"}
    /\ yielded[1]["orig_sr"] = Num(16)
    /\ yielded[1]["offset"] = None

\* C3: a JSON-object line with no audio key, or with an audio key and no
\* duration key, fails with the schema error (ValueError) and gives no record;
\* a line with an audio key and a duration key never fails with it.
C3_SchemaErrors ==
    Pulled =>
        /\ ~HasAudioKey => SchemaError
        /\ (HasAudioKey /\ "duration" \notin Keys) => SchemaError
        /\ (HasAudioKey /\ "duration" \in Keys) => err.type # "ValueError"

\* the path-resolved value of a key of the line
ResolvedValue(key) == Str(GetFullPath(TheLine.obj[key].s, M_abs, AudioFileLenLimit))

BothAudioAliases == {"audio_filepath", "audio_filename"} \subseteq Keys

\* C4 (as stated): with both audio_filepath and audio_filename, the record's
\* audio_file is the resolved value of audio_filepath.
C4_FilepathWins ==
    (Yielded /\ BothAudioAliases) =>
        yielded[1]["audio_file"] = ResolvedValue("audio_filepath")

\* C4 (amended): with both audio_filepath and audio_filename, the record's
\* audio_file is the resolved value of audio_filename, not that of
\* audio_filepath.
C4_FilenameWins ==
    (Yielded /\ BothAudioAliases) =>
        /\ yielded[1]["audio_file"] = ResolvedValue("audio_filename")
        /\ yielded[1]["audio_file"] # ResolvedValue("audio_filepath")

\* a record of a line that has all three audio keys
C4_Witness ==
    /\ Yielded
    /\ AudioKeys \subseteq Keys
    /\ yielded[1]["audio_file"] = Str(F_da)

TextEvents == {p \in 1..Len(log) : log[p].e = "text"}

\* C9: with text_filepath and no text key the record's text is the content of
\* that file, opened at the path as written, with every newline removed; with a
\* text key that value is used as it is and no text file is opened, so a
\* missing text file fails nothing; with neither, normalized_text if present,
\* else the empty string.
C9_TextResolution ==
    Pulled =>
        /\ ("text_filepath" \in Keys /\ "text" \notin Keys) =>
              /\ Yielded =>
                    /\ yielded[1]["text"] = Str(<<"a", "b">>)
                    /\ \A p \in TextEvents : log[p].p = TheLine.obj["text_filepath"].s
                    /\ Cardinality(TextEvents) = 1
              /\ ~IsFile(TheLine.obj["text_filepath"].s) => yielded = <<>>
        /\ "text" \in Keys =>
              /\ TextEvents = {}
              /\ err.type # "OSError"
              /\ Yielded => yielded[1]["text"] = TheLine.obj["text"]
        /\ (Yielded /\ {"text", "text_filepath"} \cap Keys = {}) =>
              yielded[1]["text"] = IF "normalized_text" \in Keys
                                   THEN TheLine.obj["normalized_text"]
                                   ELSE Str(<<>>)

\* a record whose text was read from the file named by text_filepath
C9_Witness ==
    /\ Yielded
    /\ "text_filepath" \in Keys /\ "text" \notin Keys
    /\ yielded[1]["text"] = Str(<<"a", "b">>)
    /\ TextEvents # {}

(***************************************************************************)
(* The resolver called on its own: any candidate, then its own output      *)
(***************************************************************************)
Candidates == UNION {[1..n -> Alphabet] : n \in 0..MaxLen}

ManifestLocations == {M_abs, M_rel, M_bare, M_store}

Homes == {<<"/", "h">>, <<"/", "d", "/", "~">>}

Disks == {{}, {F_da, F_daaaa}, {F_wa, F_ha}, {F_wda, F_wtilde}, {F_cba, F_da}}

InitResolve ==
    /\ files \in Disks
    /\ home \in Homes
    /\ cand \in Candidates
    /\ man \in ManifestLocations
    /\ lim \in {SmallLimit, AudioFileLenLimit}
    /\ out = <<>>
    /\ manifests_files = [isStr |-> FALSE, v |-> <<>>]
    /\ parse_func = "default"
    /\ mlines = <<>>
    /\ ReaderStart
    /\ runs = <<>>

Resolve ==
    /\ out = <<>>
    /\ out' = <<GetFullPath(cand, man, lim)>>
    /\ UNCHANGED <<files, home, cand, man, lim, readerVars>>

ResolveAgain ==
    /\ Len(out) = 1
    /\ out' = Append(out, GetFullPath(out[1], man, lim))
    /\ UNCHANGED <<files, home, cand, man, lim, readerVars>>

NextResolve == Resolve \/ ResolveAgain

SpecResolve == InitResolve /\ [][NextResolve]_vars

(***************************************************************************)
(* Claims about the path resolver (checked under SpecResolve)              *)
(***************************************************************************)
Resolved == Len(out) >= 1

\* C6 (as stated): a candidate longer than length_limit is returned as the
\* very string that was given, also when it begins with "~".
C6_TooLongUnchanged ==
    (Resolved /\ Len(cand) > lim) => out[1] = cand

\* C6 (amended): a candidate whose pathlib-normalised string is longer than
\* length_limit is returned as that normalised string with a leading "~"
\* expanded, whatever files exist; so a normalised candidate that does not
\* begin with "~" is returned unchanged.
C6_TooLongNormalisedExpanded ==
    (Resolved /\ Len(PathStr(cand)) > lim) =>
        /\ out[1] = ExpandUser(PathStr(cand))
        /\ (cand = PathStr(cand) /\ ~StartsWith(cand, <<"~">>)) => out[1] = cand

\* a too-long candidate with a file at the joined path, which is not returned
C6_Witness ==
    /\ Resolved
    /\ Len(PathStr(cand)) > lim
    /\ ~IsAbsolute(cand) /\ ~IsFile(cand)
    /\ IsFile(JoinedPath(cand, man))
    /\ out[1] = cand

\* C7: the resolver applied to its own output returns that output.
C7_Idempotent ==
    Len(out) = 2 => out[2] = out[1]

\* the second call was made on a path that the first call rewrote to the
\* absolute joined path
C7_Witness ==
    /\ Len(out) = 2
    /\ TreatAsRelative(cand, lim)
    /\ IsFile(JoinedPath(cand, man))
    /\ out[1] # PathStr(cand)

C8_Pre ==
    /\ Resolved
    /\ Len(cand) < lim
    /\ ~IsAbsolute(cand)
    /\ ~IsFile(cand)

\* C8 (as stated): for a short, relative candidate that is no file, the
\* result is the absolute joined (or cached) path if and only if a file exists
\* there, and otherwise the original candidate with a leading "~" expanded.
C8_JoinedIffExistsElseOriginal ==
    C8_Pre =>
        /\ (out[1] = Absolute(JoinedPath(cand, man))) <=> IsFile(JoinedPath(cand, man))
        /\ ~IsFile(JoinedPath(cand, man)) => out[1] = ExpandUser(cand)

\* C8 (amended): for such a candidate the result is the absolute joined (or
\* cached) path if a file exists there, and otherwise the pathlib-normalised
\* candidate with a leading "~" expanded; a result that is not that expanded
\* candidate is a path at which a file exists.
C8_JoinedIfExistsElseNormalised ==
    C8_Pre =>
        /\ out[1] = IF IsFile(JoinedPath(cand, man))
                    THEN Absolute(JoinedPath(cand, man))
                    ELSE ExpandUser(PathStr(cand))
        /\ out[1] # ExpandUser(PathStr(cand)) => IsFile(out[1])

\* a relative candidate resolved through the cache of an object-store manifest
C8_Witness ==
    /\ C8_Pre
    /\ man = M_store
    /\ IsFile(JoinedPath(cand, man))
    /\ out[1] = F_cba

====
